---- MODULE Spec2Model ----
(***************************************************************************)
(* Model of Creality-set-bootscreen: the remote deployment layer          *)
(* (simple_export.upload_to_printer, printer_uploader.PrinterUploader),    *)
(* the connection string parser, video_processor.export_video and main.    *)
(*                                                                         *)
(* The device is modelled by the remote target directory, its backup       *)
(* siblings <target>-BACK-<timestamp> and the commands still in flight on  *)
(* the SSH session.  Every remote entry carries the number of the          *)
(* deployment that wrote it (gen); gen 0 is content that was on the device *)
(* before the first deployment.                                            *)
(***************************************************************************)
EXTENDS Integers, Sequences, FiniteSets, TLC

VARIABLES
    pc,             \* position of the caller in upload_to_printer
    retval,         \* value returned by upload_to_printer (read at pc = "returned")
    deployNo,       \* number of the current call of upload_to_printer
    clock,          \* wall clock of the host, in ticks of 1/TicksPerSecond s
    export_dir,     \* local export directory: [exists, items]
    ssh,            \* PrinterUploader.ssh
    sftp,           \* PrinterUploader.sftp
    session,        \* network session: "none", "open" or "closed"
    sftpAvailable,  \* whether the device would grant open_sftp()
    sftpAttempted,  \* whether connect called open_sftp()
    target,         \* remote target directory: [exists, entries]
    backups,        \* timestamp -> the backup directory of that name
    pending,        \* mkdir commands sent with exec_command and not awaited
    steps,          \* the traversal of upload_directory, flattened
    idx,            \* next step of the traversal
    uploaded,       \* the manifest accumulated by upload_directory so far
    result,         \* tuple returned by upload_export_to_printer
    existedAtStart, \* the target existed when backup_and_prepare_directory began
    priorContent,   \* content of the target at that moment
    backupsAtStart, \* the backups at that moment
    backupTs,       \* timestamp computed by backup_and_prepare_directory
    failures,       \* remote operations of this deployment that failed
    everFailed,     \* a remote command failed or a deployment was interrupted
    expected,       \* (timestamp, prior content) of every successful deployment
    completed,      \* items of the traversal completed, with their relative paths
    modesUsed,      \* transports used by the operations of this session
    firstRun,       \* result of the first of two compared runs (SpecDir)
    pbar,           \* the tqdm progress bar of upload_export_to_printer
    conn_str,       \* argument of parse_connection_string
    conn,           \* what parse_connection_string returned or raised
    x_pc,           \* position in main and export_video
    x_args,         \* arguments of the run: video, times, fps, upload string
    x_fs,           \* local files: export/part0 and export/boot-display.conf
    x_call,         \* the last invocation of the transcoder
    x_out,          \* how export_video ended
    x_ghost         \* local files before the call, last complete frame set

uploaderVars == <<ssh, sftp, session, sftpAvailable, sftpAttempted>>
remoteVars == <<target, backups, pending>>
mirrorVars == <<steps, idx, uploaded, completed, pbar>>
prepVars == <<existedAtStart, priorContent, backupsAtStart, backupTs>>
vars == <<pc, retval, deployNo, clock, export_dir, ssh, sftp, session,
          sftpAvailable, sftpAttempted, target, backups, pending, steps, idx,
          uploaded, result, existedAtStart, priorContent, backupsAtStart,
          backupTs, failures, everFailed, expected, completed, modesUsed,
          firstRun, pbar, conn_str, conn, x_pc, x_args, x_fs, x_call, x_out,
          x_ghost>>
parseVars == <<conn_str, conn>>
exportVars == <<x_pc, x_args, x_fs, x_call, x_out, x_ghost>>
deployVars == <<pc, retval, deployNo, clock, export_dir, ssh, sftp, session,
                sftpAvailable, sftpAttempted, target, backups, pending, steps,
                idx, uploaded, result, existedAtStart, priorContent,
                backupsAtStart, backupTs, failures, everFailed, expected,
                completed, modesUsed, firstRun, pbar>>

(***************************************************************************)
(* Bounds                                                                  *)
(***************************************************************************)
MaxDeploys == 2
MaxClock == 2
TicksPerSecond == 2

None == "None"

(***************************************************************************)
(* Local trees: an item is a file or a directory with its listing, in the  *)
(* order os.listdir returns it.                                            *)
(***************************************************************************)
File(n) == [name |-> n, isdir |-> FALSE, children |-> <<>>]
Dir(n, c) == [name |-> n, isdir |-> TRUE, children |-> c]

Trees ==
    { <<>>,
      <<Dir("d", <<>>)>>,
      <<Dir("d", <<File("a")>>), File("a")>>,
      <<File("a"), Dir("d", <<Dir("e", <<File("b")>>)>>)>> }

LocalDirs ==
    { [exists |-> FALSE, items |-> <<>>] } \cup
    { [exists |-> TRUE, items |-> t] : t \in Trees }
NoLocalDir == [exists |-> FALSE, items |-> <<>>]

(***************************************************************************)
(* Remote file system.  A directory is [exists, entries]; an entry is      *)
(* [path, kind, gen] with path relative to the directory.                  *)
(***************************************************************************)
NoDir == [exists |-> FALSE, entries |-> {}]
EmptyDir == [exists |-> TRUE, entries |-> {}]

\* Content of the target on a device that was deployed to before.
OldContent ==
    [exists |-> TRUE,
     entries |-> { [path |-> <<"a">>, kind |-> "file", gen |-> 0],
                   [path |-> <<"old">>, kind |-> "file", gen |-> 0] }]

\* A backup sibling <target>-BACK-<ts>: the directory that was renamed to it
\* (own) and a directory that mv placed inside it (nested).
NoBackup == [exists |-> FALSE, own |-> {}, nested |-> NoDir]

Parent(p) == SubSeq(p, 1, Len(p) - 1)
Prefixes(p) == { SubSeq(p, 1, k) : k \in 1..Len(p) }
Paths(t) == { e.path : e \in t.entries }
KindAt(t, p) ==
    IF ~t.exists THEN "absent"
    ELSE IF p = <<>> THEN "dir"
    ELSE IF p \in Paths(t) THEN (CHOOSE e \in t.entries : e.path = p).kind
    ELSE "absent"

\* mkdir -p <target>/<p>: creates p and every missing parent, the target
\* included; fails when a component is a file.
MkdirPOk(t, p) == \A q \in Prefixes(p) : KindAt(t, q) # "file"
MkdirP(t, p, g) ==
    [exists |-> TRUE,
     entries |-> t.entries \cup
                 { [path |-> q, kind |-> "dir", gen |-> g] :
                       q \in { r \in Prefixes(p) : r \notin Paths(t) } }]

\* sftp.mkdir(<target>/<p>): the parent must exist and p must not.
SftpMkdirOk(t, p) == KindAt(t, Parent(p)) = "dir" /\ KindAt(t, p) = "absent"

\* Writing the file <target>/<p> (sftp.put, or cat > p): the parent must be a
\* directory and p must not be one; an existing file is overwritten.
CanWrite(t, p) == KindAt(t, Parent(p)) = "dir" /\ KindAt(t, p) # "dir"
WriteFile(t, p, g) ==
    [exists |-> TRUE,
     entries |-> { e \in t.entries : e.path # p } \cup
                 { [path |-> p, kind |-> "file", gen |-> g] }]

\* if [ -d T ]; then mv T T-BACK-ts; fi.  With no directory T-BACK-ts the
\* target is renamed; with one, mv moves the target into it, which fails when
\* a non-empty directory of the target's name is already in there.  devOk is
\* the device's own verdict (permissions, busy mount point).
MvOk(t, b, devOk) == devOk /\ ~(b.exists /\ b.nested.exists /\ b.nested.entries # {})
BackupAfterMv(t, b) ==
    IF b.exists THEN [b EXCEPT !.nested = t]
    ELSE [exists |-> TRUE, own |-> t.entries, nested |-> NoDir]

(***************************************************************************)
(* PrinterUploader                                                         *)
(***************************************************************************)

\* connect, lines 35-41: the raise of line 37 comes before open_sftp(), so
\* the except branch always runs; avail is what the device would have granted.
try_open_sftp(avail) == [attempted |-> FALSE, handle |-> None]

\* `if self.sftp:` of upload_directory.
UseSftp_inverted(handle) == handle = None
UseSftp(handle) == handle # None
Transport(handle) == IF UseSftp(handle) THEN "sftp" ELSE "exec"

\* datetime.now().strftime('%Y%m%d_%H%M%S'): the clock cut to whole seconds.
Timestamp(now) == now \div TicksPerSecond
Timestamps == 0..(MaxClock \div TicksPerSecond)

\* The strings appended to the manifest, as the path components they hold:
\* uploaded.append(item) and uploaded.append(f"{item}/ (папка)").
\* Both are appended after the if/else on self.sftp (lines 128 and 135), so
\* neither depends on the transport handle.
ManifestFile_remotePathOverSftp(handle, item, rel) ==
    [path |-> IF handle # None THEN rel ELSE <<item>>, folder |-> FALSE]
ManifestFile_relativePath(handle, item, rel) == [path |-> rel, folder |-> FALSE]
ManifestFile(handle, item, rel) == [path |-> <<item>>, folder |-> FALSE]
ManifestFolder(handle, item, rel) == [path |-> <<item>>, folder |-> TRUE]

\* The traversal of upload_directory(local_dir, remote_dir) as the sequence of
\* its steps; rel is the path of an item below the remote target.
RECURSIVE Walk(_, _)
Walk(items, prefix) ==
    IF items = <<>> THEN <<>>
    ELSE LET item == Head(items)
             rel == Append(prefix, item.name)
         IN  (IF item.isdir
              THEN <<[op |-> "mkdir", path |-> rel, item |-> item.name]>>
                   \o Walk(item.children, rel)
                   \o <<[op |-> "append", path |-> rel, item |-> item.name]>>
              ELSE <<[op |-> "put", path |-> rel, item |-> item.name]>>)
             \o Walk(Tail(items), prefix)

\* The progress bar: tqdm(total=total_files), lines 166-167; n counts the
\* units reported with update().
NoBar == [made |-> FALSE, total |-> 0, n |-> 0]
tqdm(total) == [made |-> TRUE, total |-> total, n |-> 0]

\* sum([len(files) for _, _, files in os.walk(export_dir)]), line 163: the
\* entries that are no directories, at every depth.
RECURSIVE total_files(_)
total_files(items) ==
    IF items = <<>> THEN 0
    ELSE (IF Head(items).isdir THEN total_files(Head(items).children) ELSE 1)
         + total_files(Tail(items))

\* `if pbar:` of line 138: a tqdm with a total is true when the total is > 0.
pbar_bool(bar) == bar.made /\ bar.total > 0
\* pbar.update(1), line 139.
pbar_update_perItem(bar, k) == [bar EXCEPT !.n = @ + k + 1]
pbar_update(bar, k) == [bar EXCEPT !.n = @ + k]

\* The tuples upload_export_to_printer returns.
NoResult == [success |-> FALSE, message |-> [kind |-> "none", n |-> 0],
             uploaded_files |-> <<>>]
MissingResult_reportsSuccess ==
    [success |-> TRUE, message |-> [kind |-> "missing", n |-> 0],
     uploaded_files |-> <<>>]
MissingResult == [success |-> FALSE, message |-> [kind |-> "missing", n |-> 0],
                  uploaded_files |-> <<>>]
SuccessResult(upl) == [success |-> TRUE, message |-> [kind |-> "ok", n |-> Len(upl)],
                       uploaded_files |-> upl]
ExceptResult_keepsPartial(upl) ==
    [success |-> FALSE, message |-> [kind |-> "error", n |-> 0],
     uploaded_files |-> upl]
ExceptResult(upl) == [success |-> FALSE, message |-> [kind |-> "error", n |-> 0],
                      uploaded_files |-> <<>>]

\* What upload_export_to_printer does with the exit status of the two
\* commands of backup_and_prepare_directory: stdout.read() only, no check.
PrepareRaises(mvOk, mkdirOk) == FALSE

\* close(): both handles dropped.
SshAfterClose(h) == None
SftpAfterClose(h) == None

\* Commands still in flight when the session ends either ran or did not.
Settle(t, done, g) ==
    LET ok == { p \in done : MkdirPOk(t, p) }
    IN  IF ok = {} THEN t
        ELSE [exists |-> TRUE,
              entries |-> t.entries \cup
                  { [path |-> q, kind |-> "dir", gen |-> g] :
                      q \in { r \in UNION { Prefixes(p) : p \in ok } :
                                  r \notin Paths(t) } }]

(***************************************************************************)
(* parse_connection_string.  A string is a sequence of characters; "a"     *)
(* stands for any character that is no separator, digit or newline.        *)
(***************************************************************************)
MaxConnLen == 5
MaxTailLen == 3
DEFAULT_SSH_PORT == 22

Alphabet == {"a", ":", "@", "1", "\n"}
Digits == {"1"}
StringsUpTo(n) == UNION { [1..k -> Alphabet] : k \in 0..n }

\* int(port) of a string of digits.
RECURSIVE DecimalValue(_)
DecimalValue(d) ==
    IF d = <<>> THEN 0
    ELSE 10 * DecimalValue(SubSeq(d, 1, Len(d) - 1))
         + (IF d[Len(d)] = "1" THEN 1 ELSE 0)

\* Position of the first c in s, 0 when there is none.
FirstIndex(s, c) ==
    IF \E i \in 1..Len(s) : s[i] = c
    THEN CHOOSE i \in 1..Len(s) : s[i] = c /\ \A j \in 1..(i - 1) : s[j] # c
    ELSE 0
Has(s, c) == \E i \in 1..Len(s) : s[i] = c
AllDigits(s) == \A i \in 1..Len(s) : s[i] \in Digits

NoConn == [ok |-> FALSE, user |-> <<>>, password |-> <<>>, ip |-> <<>>, port |-> 0]
Conn(u, pw, h, prt) == [ok |-> TRUE, user |-> u, password |-> pw, ip |-> h, port |-> prt]

\* What `$` leaves of the text after the port's colon: `$` also matches just
\* before a newline that ends the string.
BeforeDollar(t) ==
    IF Len(t) > 0 /\ t[Len(t)] = "\n" THEN SubSeq(t, 1, Len(t) - 1) ELSE t

\* re.match(r'^([^:@]+):([^@]+)@([^:]+)(?::(\d+))?$', conn_str), lines 52-69:
\* group 1 ends at the first ':' and holds no '@'; group 2 ends at the first
\* '@' after it; group 3 runs to the next ':' or, with none, to the end;
\* group 4 is the digits between that ':' and `$`.  NoConn is the ValueError.
parse_connection_string(s) ==
    LET i == FirstIndex(s, ":")
        user == SubSeq(s, 1, i - 1)
        rest == SubSeq(s, i + 1, Len(s))
        j == FirstIndex(rest, "@")
        password == SubSeq(rest, 1, j - 1)
        tail == SubSeq(rest, j + 1, Len(rest))
        k == FirstIndex(tail, ":")
        host == SubSeq(tail, 1, k - 1)
        port == BeforeDollar(SubSeq(tail, k + 1, Len(tail)))
    IN  IF i = 0 \/ user = <<>> \/ Has(user, "@") THEN NoConn
        ELSE IF j = 0 \/ password = <<>> THEN NoConn
        ELSE IF k = 0
             THEN (IF tail = <<>> THEN NoConn
                   ELSE Conn(user, password, tail, DEFAULT_SSH_PORT))
        ELSE IF host = <<>> \/ port = <<>> \/ ~AllDigits(port) THEN NoConn
        ELSE Conn(user, password, host, DecimalValue(port))

\* The connection strings tried: every short string, and user:password@host
\* followed by every short tail.
ConnStrings ==
    StringsUpTo(MaxConnLen) \cup
    { <<"a", ":", "a", "@", "a">> \o t : t \in StringsUpTo(MaxTailLen) }

NotParsed == [called |-> FALSE, rec |-> NoConn]

\* The upload arguments of a run of the program.
GoodConn == <<"a", ":", "a", "@", "a">>
BadConn == <<"a", "a">>

(***************************************************************************)
(* export_video and create_boot_config.  Times are whole ticks of          *)
(* 1/TicksPerSecond s.  A file of the output directory is its name, split  *)
(* into prefix, number and extension, with the export that wrote it.       *)
(***************************************************************************)
MaxExports == 2
VIDEO_WIDTH == 480
VIDEO_HEIGHT == 800
ErrLimit == 500

Starts == {0, 2}
Ends == {1, 2, 4}
FpsValues == {1, 2}
StderrLengths == {0, ErrLimit, ErrLimit + 1}

NamedFile(prefix, n, ext, run) == [prefix |-> prefix, idx |-> n, ext |-> ext, run |-> run]
\* 'pic_%03d.jpg' with -start_number 0, lines 146 and 168.
Frame(n, run) == NamedFile("pic_", n, ".jpg", run)
\* A file somebody left in the output directory; it is no frame.
StrayFile == NamedFile("pic_", 0, ".png", 0)
\* file.startswith('pic_') and file.endswith('.jpg'), lines 125 and 179.
IsFrame(f) == f.prefix = "pic_" /\ f.ext = ".jpg"
FramesOf(files) == { f \in files : IsFrame(f) }

NoConfig == [exists |-> FALSE, width |-> 0, height |-> 0, fps |-> 0]
\* BOOT_CONFIG_TEMPLATE filled in by create_boot_config, lines 76-80.
BootConfig(fps) == [exists |-> TRUE, width |-> VIDEO_WIDTH, height |-> VIDEO_HEIGHT, fps |-> fps]

NoFiles == [dir |-> FALSE, files |-> {}, config |-> NoConfig]
StrayFiles == [dir |-> TRUE, files |-> {StrayFile}, config |-> NoConfig]

\* create_boot_config, lines 67-85: the file is written whatever it held.
create_boot_config(fs, fps) == [fs EXCEPT !.config = BootConfig(fps)]

\* The cleanup loop of export_video, lines 124-126.
CleanFrames_keepsOld(files) == files
CleanFrames(files) == { f \in files : ~IsFrame(f) }

\* int(x) of Python for the rational n/d, d > 0: truncation toward zero.
Trunc(n, d) == IF n >= 0 THEN n \div d ELSE -((-n) \div d)
\* frame_count = int(duration * fps), lines 136-137, times in ticks.
frame_count(start_time, end_time, fps) ==
    Trunc((end_time - start_time) * fps, TicksPerSecond)

\* The files after the transcoder wrote its first k frames over the
\* directory (-y): frames of the same name are replaced.
WriteFrames(files, k, run) ==
    { f \in files : ~(IsFrame(f) /\ f.idx < k) } \cup { Frame(n, run) : n \in 0..(k - 1) }

\* result.stderr[:500], line 185.
Truncated(len) == IF len < ErrLimit THEN len ELSE ErrLimit

NoArgs == [video_exists |-> FALSE, start |-> 0, end_given |-> FALSE, end |-> 0,
           fps |-> 0, tool_found |-> FALSE, upload |-> <<>>]
\* The transcoder: whether its launch was attempted, whether the frame
\* extraction ran, the end time and frame limit computed for it, the frames
\* that were in the directory when it started.
NoCall == [attempted |-> FALSE, invoked |-> FALSE, timed |-> FALSE, end |-> 0,
           frames_arg |-> 0, stale |-> {}]
NoOutcome == [state |-> "none", value |-> FALSE, kind |-> "none", logged |-> 0,
              code |-> -1]
NoGhost == [exportNo |-> 0, before |-> NoFiles, lastGood |-> {}, stderr |-> 0]
Returns(v, kind, logged) ==
    [state |-> "returned", value |-> v, kind |-> kind, logged |-> logged, code |-> -1]
Raises(kind) ==
    [state |-> "raised", value |-> FALSE, kind |-> kind, logged |-> 0, code |-> -1]

\* The arguments export_video is called with, and whether the transcoder
\* executable named by ffmpeg_cmd can be started.
ExportArgs ==
    { [video_exists |-> v, start |-> st, end_given |-> TRUE, end |-> e,
       fps |-> f, tool_found |-> t, upload |-> <<>>] :
         v \in BOOLEAN, st \in Starts, e \in Ends, f \in FpsValues, t \in BOOLEAN }
    \cup
    { [video_exists |-> v, start |-> st, end_given |-> FALSE, end |-> 0,
       fps |-> f, tool_found |-> t, upload |-> <<>>] :
         v \in BOOLEAN, st \in Starts, f \in FpsValues, t \in BOOLEAN }
(***************************************************************************)
(* Initial state: nothing deployed yet; the device has a target directory  *)
(* from an earlier installation, or none.                                  *)
(***************************************************************************)
Init ==
    /\ conn_str = <<>> /\ conn = NotParsed
    /\ x_pc = "x_idle" /\ x_args = NoArgs /\ x_fs = NoFiles
    /\ x_call = NoCall /\ x_out = NoOutcome /\ x_ghost = NoGhost
    /\ pc = "idle"
    /\ retval = FALSE
    /\ deployNo = 0
    /\ clock = 0
    /\ export_dir \in LocalDirs
    /\ ssh = None /\ sftp = None /\ session = "none"
    /\ sftpAvailable = FALSE /\ sftpAttempted = FALSE
    /\ target \in {NoDir, OldContent}
    /\ backups = [ts \in Timestamps |-> NoBackup]
    /\ pending = {}
    /\ steps = <<>> /\ idx = 1 /\ uploaded = <<>> /\ completed = <<>>
    /\ pbar = NoBar
    /\ result = NoResult
    /\ existedAtStart = FALSE /\ priorContent = {}
    /\ backupsAtStart = backups /\ backupTs = 0
    /\ failures = {} /\ everFailed = FALSE
    /\ expected = {}
    /\ modesUsed = {}
    /\ firstRun = [done |-> FALSE, result |-> NoResult, failures |-> {}]

\* The host clock advances.  The clock is read only by
\* backup_and_prepare_directory (line 60), so time is let pass just before.
Tick ==
    /\ UNCHANGED <<parseVars, exportVars>>
    /\ pc = "upload"
    /\ clock < MaxClock
    /\ clock' = clock + 1
    /\ UNCHANGED <<pc, retval, deployNo, export_dir, uploaderVars, remoteVars,
                   mirrorVars, result, prepVars, failures, everFailed, expected,
                   modesUsed, firstRun>>

\* upload_to_printer, lines 84-91: parse the connection string and create
\* the uploader; a malformed string raises ValueError (line 113).
upload_to_printer_steps(c, d) ==
    /\ deployNo' = deployNo + 1
    /\ export_dir' = d
    /\ IF parse_connection_string(c).ok
          THEN pc' = "connect" /\ retval' = retval
          ELSE pc' = "returned" /\ retval' = FALSE
    /\ ssh' = None /\ sftp' = None /\ session' = "none"
    /\ sftpAvailable' = FALSE /\ sftpAttempted' = FALSE
    /\ steps' = <<>> /\ idx' = 1 /\ uploaded' = <<>> /\ completed' = <<>>
    /\ pbar' = NoBar
    /\ result' = NoResult
    /\ failures' = {} /\ modesUsed' = {}
    /\ existedAtStart' = FALSE /\ priorContent' = {}
    /\ backupsAtStart' = backups /\ backupTs' = 0
    /\ UNCHANGED <<clock, remoteVars, everFailed, expected, firstRun>>

\* A call of upload_to_printer with some connection string and export
\* directory.
upload_to_printer ==
    /\ UNCHANGED <<parseVars, exportVars>>
    /\ pc \in {"idle", "returned", "raised"}
    /\ deployNo < MaxDeploys
    /\ \E c \in {GoodConn, BadConn}, d \in LocalDirs :
          upload_to_printer_steps(c, d)

\* PrinterUploader.connect, lines 30-41; a failed handshake raises into the
\* except of upload_to_printer (line 116).
connect ==
    /\ UNCHANGED <<parseVars, exportVars>>
    /\ pc = "connect"
    /\ \E ok \in BOOLEAN, avail \in BOOLEAN :
          /\ ssh' = "client"
          /\ IF ok
             THEN /\ session' = "open"
                  /\ sftpAvailable' = avail
                  /\ sftpAttempted' = try_open_sftp(avail).attempted
                  /\ sftp' = try_open_sftp(avail).handle
                  /\ pc' = "upload"
                  /\ retval' = retval
             ELSE /\ UNCHANGED <<session, sftpAvailable, sftpAttempted, sftp>>
                  /\ pc' = "returned"
                  /\ retval' = FALSE
    /\ UNCHANGED <<deployNo, clock, export_dir, remoteVars, mirrorVars, result,
                   prepVars, failures, everFailed, expected, modesUsed, firstRun>>

\* upload_export_to_printer, lines 156-157: no local export directory.
export_dir_missing ==
    /\ UNCHANGED <<parseVars, exportVars>>
    /\ pc = "upload"
    /\ ~export_dir.exists
    /\ result' = MissingResult
    /\ pc' = "close"
    /\ UNCHANGED <<retval, deployNo, clock, export_dir, uploaderVars, remoteVars,
                   mirrorVars, prepVars, failures, everFailed, expected,
                   modesUsed, firstRun>>

\* backup_and_prepare_directory, lines 60-65: the backup command, awaited.
backup_cmd ==
    /\ UNCHANGED <<parseVars, exportVars>>
    /\ pc = "upload"
    /\ export_dir.exists
    /\ LET ts == Timestamp(clock) IN
       \E devOk \in BOOLEAN :
          LET ok == MvOk(target, backups[ts], devOk) IN
          /\ backupTs' = ts
          /\ existedAtStart' = target.exists
          /\ priorContent' = target.entries
          /\ backupsAtStart' = backups
          /\ IF ~target.exists
             THEN UNCHANGED <<target, backups, failures, everFailed>>
             ELSE IF ok
             THEN /\ backups' = [backups EXCEPT ![ts] = BackupAfterMv(target, @)]
                  /\ target' = NoDir
                  /\ UNCHANGED <<failures, everFailed>>
             ELSE /\ failures' = failures \cup {"mv"}
                  /\ everFailed' = TRUE
                  /\ UNCHANGED <<target, backups>>
    /\ pc' = "prepare"
    /\ UNCHANGED <<retval, deployNo, clock, export_dir, uploaderVars, pending,
                   mirrorVars, result, expected, modesUsed, firstRun>>

\* backup_and_prepare_directory, lines 68-69 (mkdir -p of the target,
\* awaited; it can only fail when the target is absent), then lines 163-167:
\* the traversal starts.
prepare_cmd ==
    /\ UNCHANGED <<parseVars, exportVars>>
    /\ pc = "prepare"
    /\ \E devOk \in BOOLEAN :
          LET mvOk == "mv" \notin failures IN
          /\ IF devOk \/ target.exists
             THEN target' = [target EXCEPT !.exists = TRUE]
                  /\ UNCHANGED <<failures, everFailed>>
             ELSE /\ failures' = failures \cup {"mkdir_target"}
                  /\ everFailed' = TRUE
                  /\ UNCHANGED target
          /\ IF PrepareRaises(mvOk, devOk \/ target.exists)
             THEN /\ result' = ExceptResult(<<>>)
                  /\ pc' = "close"
                  /\ UNCHANGED <<steps, idx, pbar>>
             ELSE /\ steps' = Walk(export_dir.items, <<>>)
                  /\ idx' = 1
                  /\ pbar' = tqdm(total_files(export_dir.items))
                  /\ pc' = "mirror"
                  /\ UNCHANGED result
    /\ uploaded' = <<>> /\ completed' = <<>>
    /\ UNCHANGED <<retval, deployNo, clock, export_dir, uploaderVars, backups,
                   pending, prepVars, expected, modesUsed, firstRun>>

\* upload_directory, lines 115-124: a subdirectory.  sftp.mkdir is awaited and
\* its IOError swallowed; in exec mode the mkdir -p is sent and not awaited.
upload_subdir ==
    /\ UNCHANGED <<parseVars, exportVars>>
    /\ pc = "mirror" /\ idx <= Len(steps) /\ steps[idx].op = "mkdir"
    /\ LET s == steps[idx] IN
       IF UseSftp(sftp)
       THEN \E devOk \in BOOLEAN :
               /\ IF devOk /\ SftpMkdirOk(target, s.path)
                  THEN /\ target' = MkdirP(target, s.path, deployNo)
                       /\ UNCHANGED <<failures, everFailed>>
                  ELSE /\ failures' = failures \cup {"mkdir"}
                       /\ everFailed' = TRUE
                       /\ UNCHANGED target
               /\ UNCHANGED pending
       ELSE /\ pending' = pending \cup {s.path}
            /\ UNCHANGED <<target, failures, everFailed>>
    /\ modesUsed' = modesUsed \cup {Transport(sftp)}
    /\ idx' = idx + 1
    /\ UNCHANGED <<pc, retval, deployNo, clock, export_dir, uploaderVars, backups,
                   steps, uploaded, completed, pbar, result, prepVars, expected,
                   firstRun>>

\* The device runs a mkdir -p that was sent and not awaited.
mkdir_completes ==
    /\ UNCHANGED <<parseVars, exportVars>>
    /\ session = "open"
    /\ \E p \in pending, devOk \in BOOLEAN :
          /\ pending' = pending \ {p}
          /\ IF devOk /\ MkdirPOk(target, p)
             THEN /\ target' = MkdirP(target, p, deployNo)
                  /\ UNCHANGED <<failures, everFailed>>
             ELSE /\ failures' = failures \cup {"mkdir"}
                  /\ everFailed' = TRUE
                  /\ UNCHANGED target
    /\ UNCHANGED <<pc, retval, deployNo, clock, export_dir, uploaderVars, backups,
                   mirrorVars, result, prepVars, expected, modesUsed, firstRun>>

\* upload_directory, lines 129-140: a file, by sftp.put or upload_file_scp
\* (lines 79-95); either raises when the transfer fails, and the exception
\* ends upload_export_to_printer in its except clause (lines 173-174).
upload_file ==
    /\ UNCHANGED <<parseVars, exportVars>>
    /\ pc = "mirror" /\ idx <= Len(steps) /\ steps[idx].op = "put"
    /\ LET s == steps[idx] IN
       \E devOk \in BOOLEAN :
          IF devOk /\ CanWrite(target, s.path)
          THEN /\ target' = WriteFile(target, s.path, deployNo)
               /\ uploaded' = Append(uploaded, ManifestFile(sftp, s.item, s.path))
               /\ completed' = Append(completed, [path |-> s.path, isdir |-> FALSE])
               /\ pbar' = (IF pbar_bool(pbar) THEN pbar_update(pbar, 1) ELSE pbar)
               /\ idx' = idx + 1
               /\ UNCHANGED <<pc, result, failures, everFailed>>
          ELSE /\ failures' = failures \cup {"put"}
               /\ everFailed' = TRUE
               /\ result' = ExceptResult(uploaded)
               /\ pc' = "close"
               /\ UNCHANGED <<target, uploaded, completed, idx, pbar>>
    /\ modesUsed' = modesUsed \cup {Transport(sftp)}
    /\ UNCHANGED <<retval, deployNo, clock, export_dir, uploaderVars, backups,
                   pending, steps, prepVars, expected, firstRun>>

\* upload_directory, lines 127-128: the recursive call for a subdirectory has
\* returned; its entries are in the manifest and the folder's follows them.
append_folder ==
    /\ UNCHANGED <<parseVars, exportVars>>
    /\ pc = "mirror" /\ idx <= Len(steps) /\ steps[idx].op = "append"
    /\ LET s == steps[idx] IN
       /\ uploaded' = Append(uploaded, ManifestFolder(sftp, s.item, s.path))
       /\ completed' = Append(completed, [path |-> s.path, isdir |-> TRUE])
    /\ idx' = idx + 1
    /\ UNCHANGED <<pc, retval, deployNo, clock, export_dir, uploaderVars,
                   remoteVars, steps, pbar, result, prepVars, failures, everFailed,
                   expected, modesUsed, firstRun>>

\* upload_export_to_printer, lines 169-171: the traversal is over.
upload_return ==
    /\ UNCHANGED <<parseVars, exportVars>>
    /\ pc = "mirror" /\ idx > Len(steps)
    /\ result' = SuccessResult(uploaded)
    /\ expected' = IF existedAtStart
                   THEN expected \cup {[ts |-> backupTs, content |-> priorContent,
                                        deploy |-> deployNo]}
                   ELSE expected
    /\ pc' = "close"
    /\ UNCHANGED <<retval, deployNo, clock, export_dir, uploaderVars, remoteVars,
                   mirrorVars, prepVars, failures, everFailed, modesUsed, firstRun>>

\* upload_to_printer, lines 104-111: close the uploader (lines 45-50) and
\* return the outcome.
close ==
    /\ UNCHANGED <<parseVars, exportVars>>
    /\ pc = "close"
    /\ ssh' = SshAfterClose(ssh)
    /\ sftp' = SftpAfterClose(sftp)
    /\ session' = "closed"
    /\ \E done \in SUBSET pending : target' = Settle(target, done, deployNo)
    /\ pending' = {}
    /\ retval' = result.success
    /\ pc' = "returned"
    /\ UNCHANGED <<deployNo, clock, export_dir, sftpAvailable, sftpAttempted,
                   backups, mirrorVars, result, prepVars, failures, everFailed,
                   expected, modesUsed, firstRun>>

\* A KeyboardInterrupt during a blocking call of the deployment: neither
\* `except Exception` of upload_export_to_printer (line 173) nor those of
\* upload_to_printer (lines 113-118) catch it; main does (line 172).  The
\* process then ends, and with it the commands in flight.
interrupt ==
    /\ UNCHANGED <<parseVars, exportVars>>
    /\ pc \in {"upload", "prepare", "mirror"}
    /\ pc' = "raised"
    /\ \E done \in SUBSET pending : target' = Settle(target, done, deployNo)
    /\ pending' = {}
    /\ everFailed' = TRUE
    /\ UNCHANGED <<retval, deployNo, clock, export_dir, uploaderVars, backups,
                   mirrorVars, result, prepVars, failures, expected, modesUsed,
                   firstRun>>

Next ==
    \/ Tick
    \/ upload_to_printer
    \/ connect
    \/ export_dir_missing
    \/ backup_cmd
    \/ prepare_cmd
    \/ upload_subdir
    \/ mkdir_completes
    \/ upload_file
    \/ append_folder
    \/ upload_return
    \/ close
    \/ interrupt

Spec == Init /\ [][Next]_vars

(***************************************************************************)
(* SpecDir: upload_export_to_printer run twice on one connected uploader,  *)
(* first with self.sftp = None (exec mode), then with an SFTP handle set,  *)
(* to compare what the two transports return for the same local tree.      *)
(***************************************************************************)
InitDir ==
    /\ conn_str = <<>> /\ conn = NotParsed
    /\ x_pc = "x_idle" /\ x_args = NoArgs /\ x_fs = NoFiles
    /\ x_call = NoCall /\ x_out = NoOutcome /\ x_ghost = NoGhost
    /\ pc = "upload"
    /\ retval = FALSE
    /\ deployNo = 1
    /\ clock = 0
    /\ export_dir \in { d \in LocalDirs : d.exists }
    /\ ssh = "client" /\ sftp = None /\ session = "open"
    /\ sftpAvailable = TRUE /\ sftpAttempted = FALSE
    /\ target \in {NoDir, OldContent}
    /\ backups = [ts \in Timestamps |-> NoBackup]
    /\ pending = {}
    /\ steps = <<>> /\ idx = 1 /\ uploaded = <<>> /\ completed = <<>>
    /\ pbar = NoBar
    /\ result = NoResult
    /\ existedAtStart = FALSE /\ priorContent = {}
    /\ backupsAtStart = backups /\ backupTs = 0
    /\ failures = {} /\ everFailed = FALSE
    /\ expected = {}
    /\ modesUsed = {}
    /\ firstRun = [done |-> FALSE, result |-> NoResult, failures |-> {}]

\* The first run has returned: keep its result, set the SFTP handle and call
\* upload_export_to_printer again with the same export directory.
second_run ==
    /\ UNCHANGED <<parseVars, exportVars>>
    /\ pc = "close"
    /\ ~firstRun.done
    /\ firstRun' = [done |-> TRUE, result |-> result, failures |-> failures]
    /\ sftp' = "sftp"
    /\ deployNo' = deployNo + 1
    /\ pc' = "upload"
    /\ steps' = <<>> /\ idx' = 1 /\ uploaded' = <<>> /\ completed' = <<>>
    /\ pbar' = NoBar
    /\ result' = NoResult
    /\ failures' = {} /\ modesUsed' = {}
    /\ UNCHANGED <<retval, clock, export_dir, ssh, session, sftpAvailable,
                   sftpAttempted, remoteVars, prepVars, everFailed, expected>>

NextDir ==
    \/ Tick
    \/ backup_cmd
    \/ prepare_cmd
    \/ upload_subdir
    \/ mkdir_completes
    \/ upload_file
    \/ append_folder
    \/ upload_return
    \/ second_run

SpecDir == InitDir /\ [][NextDir]_vars

(***************************************************************************)
(* parse_connection_string applied to one string.                          *)
(***************************************************************************)
\* No deployment is in progress and nothing is on the device.
DeployIdle ==
    /\ pc = "idle" /\ retval = FALSE /\ deployNo = 0 /\ clock = 0
    /\ export_dir = NoLocalDir
    /\ ssh = None /\ sftp = None /\ session = "none"
    /\ sftpAvailable = FALSE /\ sftpAttempted = FALSE
    /\ backups = [ts \in Timestamps |-> NoBackup]
    /\ pending = {}
    /\ steps = <<>> /\ idx = 1 /\ uploaded = <<>> /\ completed = <<>>
    /\ pbar = NoBar
    /\ result = NoResult
    /\ existedAtStart = FALSE /\ priorContent = {}
    /\ backupsAtStart = backups /\ backupTs = 0
    /\ failures = {} /\ everFailed = FALSE
    /\ expected = {}
    /\ modesUsed = {}
    /\ firstRun = [done |-> FALSE, result |-> NoResult, failures |-> {}]

\* No export is in progress.
ExportIdle ==
    /\ x_pc = "x_idle" /\ x_args = NoArgs
    /\ x_call = NoCall /\ x_out = NoOutcome /\ x_ghost = NoGhost

InitParse ==
    /\ conn_str \in ConnStrings
    /\ conn = NotParsed
    /\ ExportIdle /\ x_fs = NoFiles
    /\ DeployIdle /\ target = NoDir

\* The call parse_connection_string(conn_str), lines 37-69.
parse_call ==
    /\ ~conn.called
    /\ conn' = [called |-> TRUE, rec |-> parse_connection_string(conn_str)]
    /\ UNCHANGED <<conn_str, exportVars, deployVars>>

NextParse == parse_call

SpecParse == InitParse /\ [][NextParse]_vars

(***************************************************************************)
(* export_video, called repeatedly on the same output directory.           *)
(***************************************************************************)
InitExport ==
    /\ conn_str = <<>> /\ conn = NotParsed
    /\ ExportIdle /\ x_fs \in {NoFiles, StrayFiles}
    /\ DeployIdle /\ target = NoDir

\* A caller calls export_video(video_path, ffmpeg_cmd, start_time, end_time,
\* fps), lines 88-98.
export_request ==
    /\ x_pc \in {"x_idle", "x_returned", "x_raised"}
    /\ x_ghost.exportNo < MaxExports
    /\ \E a \in ExportArgs : x_args' = a
    /\ x_pc' = "x_entry"
    /\ x_call' = NoCall
    /\ x_out' = NoOutcome
    /\ x_ghost' = [x_ghost EXCEPT !.exportNo = @ + 1, !.before = x_fs, !.stderr = 0]
    /\ UNCHANGED <<x_fs, parseVars, deployVars>>

\* export_video, lines 112-126: the video must exist; then the output
\* directory is made, boot-display.conf is written and the old frames are
\* removed.
export_video_begin ==
    /\ x_pc = "x_entry"
    /\ IF ~x_args.video_exists
          THEN /\ x_out' = Returns(FALSE, "video_missing", 0)
               /\ x_pc' = "x_returned"
               /\ x_fs' = x_fs
          ELSE /\ x_fs' = [create_boot_config(x_fs, x_args.fps) EXCEPT
                              !.dir = TRUE, !.files = CleanFrames(x_fs.files)]
               /\ x_pc' = "x_duration"
               /\ x_out' = x_out
    /\ UNCHANGED <<x_args, x_call, x_ghost, parseVars, deployVars>>

\* export_video, lines 128-137, with get_video_duration, lines 18-64.  With
\* no end time the duration comes from ffprobe or, failing that, from the
\* "Duration:" line ffmpeg -i prints; the fallback starts the executable
\* ffmpeg_cmd.
export_duration ==
    /\ x_pc = "x_duration"
    /\ \/ /\ x_args.end_given
          /\ x_call' = [x_call EXCEPT !.timed = TRUE, !.end = x_args.end,
                           !.frames_arg = frame_count(x_args.start, x_args.end, x_args.fps)]
          /\ x_pc' = "x_transcode" /\ x_out' = x_out
       \/ \* ffprobe answers, lines 35-47
          /\ ~x_args.end_given
          /\ \E len \in Ends :
                x_call' = [x_call EXCEPT !.timed = TRUE, !.end = len,
                              !.frames_arg = frame_count(x_args.start, len, x_args.fps)]
          /\ x_pc' = "x_transcode" /\ x_out' = x_out
       \/ \* ffprobe fails, ffmpeg -i prints a duration, lines 52-62
          /\ ~x_args.end_given /\ x_args.tool_found
          /\ \E len \in Ends :
                x_call' = [x_call EXCEPT !.attempted = TRUE, !.timed = TRUE, !.end = len,
                              !.frames_arg = frame_count(x_args.start, len, x_args.fps)]
          /\ x_pc' = "x_transcode" /\ x_out' = x_out
       \/ \* no "Duration:" line: RuntimeError, caught at line 132
          /\ ~x_args.end_given /\ x_args.tool_found
          /\ x_call' = [x_call EXCEPT !.attempted = TRUE]
          /\ x_out' = Returns(FALSE, "duration_unknown", 0)
          /\ x_pc' = "x_returned"
       \/ \* "Duration: N/A": the unpacking of line 61 raises ValueError
          /\ ~x_args.end_given /\ x_args.tool_found
          /\ x_call' = [x_call EXCEPT !.attempted = TRUE]
          /\ x_out' = Raises("ValueError")
          /\ x_pc' = "x_raised"
       \/ \* subprocess.run of line 52 cannot start ffmpeg_cmd
          /\ ~x_args.end_given /\ ~x_args.tool_found
          /\ x_call' = [x_call EXCEPT !.attempted = TRUE]
          /\ x_out' = Raises("FileNotFoundError")
          /\ x_pc' = "x_raised"
    /\ UNCHANGED <<x_args, x_fs, x_ghost, parseVars, deployVars>>

\* export_video, lines 139-193: the transcoder is run with the frame limit
\* and its exit code decides the result.  The transcoder writes at most the
\* limit of frames and rejects a negative limit.
export_transcode ==
    /\ x_pc = "x_transcode"
    /\ x_pc' = "x_returned"
    /\ \/ \* FileNotFoundError, lines 188-190
          /\ ~x_args.tool_found
          /\ x_call' = [x_call EXCEPT !.attempted = TRUE]
          /\ x_out' = Returns(FALSE, "tool_unavailable", 0)
          /\ UNCHANGED <<x_fs, x_ghost>>
       \/ \* any other exception of subprocess.run, lines 191-193
          /\ x_args.tool_found
          /\ x_call' = [x_call EXCEPT !.attempted = TRUE]
          /\ x_out' = Returns(FALSE, "other_error", 0)
          /\ UNCHANGED <<x_fs, x_ghost>>
       \/ /\ x_args.tool_found
          /\ x_call' = [x_call EXCEPT !.attempted = TRUE, !.invoked = TRUE,
                           !.stale = FramesOf(x_fs.files)]
          /\ \E k \in 0..(IF x_call.frames_arg > 0 THEN x_call.frames_arg ELSE 0) :
               LET files == WriteFrames(x_fs.files, k, x_ghost.exportNo) IN
                 /\ x_fs' = [x_fs EXCEPT !.files = files]
                 /\ \/ \* returncode 0, lines 178-182
                       /\ x_call.frames_arg >= 0
                       /\ x_out' = Returns(TRUE, "ok", 0)
                       /\ x_ghost' = [x_ghost EXCEPT !.lastGood = FramesOf(files)]
                    \/ \* returncode nonzero, lines 183-186
                       \E len \in StderrLengths :
                         /\ x_out' = Returns(FALSE, "ffmpeg_error", Truncated(len))
                         /\ x_ghost' = [x_ghost EXCEPT !.stderr = len]
    /\ UNCHANGED <<x_args, parseVars, deployVars>>

NextExport ==
    \/ export_request
    \/ export_video_begin
    \/ export_duration
    \/ export_transcode

SpecExport == InitExport /\ [][NextExport]_vars

(***************************************************************************)
(* main: one run of the program, export and then the optional upload.      *)
(***************************************************************************)
\* An export of an earlier run of the program: two frames at 1 fps.
PriorFiles ==
    [dir |-> TRUE, files |-> {Frame(0, 0), Frame(1, 0), StrayFile},
     config |-> BootConfig(1)]

\* The command lines tried: the video given, --start 0, with and without
\* --end, and --upload absent, well formed or malformed.
MainArgs ==
    { a \in [video_exists : BOOLEAN, start : {0}, end_given : BOOLEAN,
             end : {0, 2}, fps : FpsValues, tool_found : {TRUE},
             upload : {<<>>, GoodConn, BadConn}] :
        a.end_given <=> a.end # 0 }

\* '%03d' of the frame pattern, and the name of a file.
Pad3(n) == IF n < 10 THEN "00" \o ToString(n)
           ELSE IF n < 100 THEN "0" \o ToString(n) ELSE ToString(n)
FileName(f) == f.prefix \o Pad3(f.idx) \o f.ext

\* os.listdir of the output directory as a list, frames by number.
RECURSIVE Listing(_)
Listing(files) ==
    IF files = {} THEN <<>>
    ELSE LET f == CHOOSE g \in files :
                    \A h \in files : (IsFrame(g) /\ ~IsFrame(h)) \/
                                     (IsFrame(g) = IsFrame(h) /\ g.idx <= h.idx)
         IN  <<File(FileName(f))>> \o Listing(files \ {f})

\* The directory 'export' that main passes to upload_to_printer: the config
\* file and part0 with the files of the output directory.
LocalExport(fs) ==
    IF ~fs.dir THEN NoLocalDir
    ELSE [exists |-> TRUE,
          items |-> (IF fs.config.exists THEN <<File("boot-display.conf")>> ELSE <<>>)
                    \o <<Dir("part0", Listing(fs.files))>>]

InitMain ==
    /\ conn_str = <<>> /\ conn = NotParsed
    /\ ExportIdle /\ x_fs \in {NoFiles, PriorFiles}
    /\ DeployIdle /\ target \in {NoDir, OldContent}

\* main, lines 123-157: the arguments are parsed, get_ffmpeg_path finds the
\* transcoder or raises RuntimeError (caught at line 169), and export_video
\* is called.
main_start ==
    /\ x_pc = "x_idle"
    /\ x_call' = NoCall
    /\ x_ghost' = [x_ghost EXCEPT !.exportNo = @ + 1, !.before = x_fs]
    /\ \E a \in MainArgs, found \in BOOLEAN :
          /\ x_args' = a
          /\ IF found
                THEN x_pc' = "x_entry" /\ x_out' = NoOutcome
                ELSE x_pc' = "m_done" /\ x_out' = [NoOutcome EXCEPT !.code = 1]
    /\ UNCHANGED <<x_fs, parseVars, deployVars>>

\* main, lines 159-177: a failed export ends the run with 1; with --upload
\* upload_to_printer is called with the string and the directory 'export'.
main_after_export ==
    /\ x_pc \in {"x_returned", "x_raised"}
    /\ IF x_out.state = "returned" /\ x_out.value /\ x_args.upload # <<>>
          THEN /\ x_pc' = "m_upload"
               /\ x_out' = x_out
               /\ upload_to_printer_steps(x_args.upload, LocalExport(x_fs))
          ELSE /\ x_pc' = "m_done"
               /\ x_out' = [x_out EXCEPT
                               !.code = IF x_out.state = "returned" /\ x_out.value
                                           THEN 0 ELSE 1]
               /\ UNCHANGED deployVars
    /\ UNCHANGED <<x_args, x_fs, x_call, x_ghost, parseVars>>

\* main, lines 164-165 and 172-174: the value of upload_to_printer, or the
\* KeyboardInterrupt that came out of it, decides the exit code.
main_exit ==
    /\ x_pc = "m_upload"
    /\ pc \in {"returned", "raised"}
    /\ x_pc' = "m_done"
    /\ x_out' = [x_out EXCEPT !.code = IF pc = "returned" /\ retval THEN 0 ELSE 1]
    /\ UNCHANGED <<x_args, x_fs, x_call, x_ghost, parseVars, deployVars>>

NextMain ==
    \/ main_start
    \/ export_video_begin
    \/ export_duration
    \/ export_transcode
    \/ main_after_export
    \/ connect
    \/ Tick
    \/ backup_cmd
    \/ prepare_cmd
    \/ upload_subdir
    \/ mkdir_completes
    \/ upload_file
    \/ append_folder
    \/ upload_return
    \/ close
    \/ interrupt
    \/ main_exit

SpecMain == InitMain /\ [][NextMain]_vars

(***************************************************************************)
(* Properties                                                              *)
(***************************************************************************)
Returned == pc \in {"close", "returned"} /\ result.message.kind # "none"
ConnectSucceeded == session # "none"

RECURSIVE ItemCount(_)
ItemCount(items) ==
    IF items = <<>> THEN 0
    ELSE 1 + ItemCount(Head(items).children) + ItemCount(Tail(items))

\* C1: once connect has succeeded, the SSH session and the SFTP handle are
\* closed whenever upload_to_printer has been left, by return or by exception.
C1_ClosedOnEveryExit ==
    pc \in {"returned", "raised"} /\ ConnectSucceeded
        => ssh = None /\ sftp = None /\ session = "closed"

\* C2: when the mirror step is about to copy its first item, a target that
\* existed has been renamed to <target>-BACK-<timestamp> and a fresh empty
\* target is in place; a target that did not exist caused no rename and was
\* created.
C2_BackupAndFreshBeforeCopy ==
    pc = "mirror" /\ idx = 1
        => /\ target = EmptyDir
           /\ IF existedAtStart
              THEN /\ backups[backupTs].exists
                   /\ backups[backupTs].own = priorContent
                   /\ ~backups[backupTs].nested.exists
              ELSE backups = backupsAtStart

\* C3: after a deployment reported as successful the target holds nothing
\* that an earlier deployment or installation put there.
C3_OnlyThisDeployment ==
    Returned /\ result.success => \A e \in target.entries : e.gen = deployNo

\* C4: after a successful deployment, when every remote command so far exited
\* with status zero and no deployment was interrupted, the content the target
\* had before each successful deployment is the content of the sibling
\* <target>-BACK-<timestamp> of that deployment, with nothing merged into it.
C4_BackupsPreserved ==
    Returned /\ result.success /\ ~everFailed
        => \A r \in expected : /\ backups[r.ts].exists
                               /\ backups[r.ts].own = r.content
                               /\ ~backups[r.ts].nested.exists

\* C5: a failed rename or re-create command of backup_and_prepare_directory
\* makes upload_export_to_printer return success=False.
C5_PrepareFailureReported ==
    Returned /\ failures \cap {"mv", "mkdir_target"} # {} => ~result.success

\* C6: on an open session the primary capability was attempted, and the
\* session is in exec mode only if the device refused it.
C6_PrimaryAttempted ==
    session = "open"
        => /\ sftpAttempted
           /\ sftpAvailable => sftp # None
           /\ sftp = None => ~sftpAvailable

\* C7: while the session is open the SFTP handle never changes, and every
\* directory creation and file transfer used the transport that the handle
\* set by connect stands for.
C7_ModeFixed ==
    /\ [](session = "open"
            => modesUsed \subseteq {IF sftp = None THEN "exec" ELSE "sftp"})
    /\ [][session = "open" /\ session' = "open" => sftp' = sftp]_vars
C7_Witness ==
    session = "open" /\ pc = "mirror" /\ idx > 3 /\ modesUsed = {"exec"}
        /\ \E i \in 1..(idx - 1) : steps[i].op = "mkdir"

\* C8: for the same local tree, the run in exec mode and the run in SFTP mode
\* return the same manifest when no remote operation failed in either.
C8_SameManifest ==
    firstRun.done /\ Returned /\ firstRun.failures = {} /\ failures = {}
        => /\ result.success /\ firstRun.result.success
           /\ result.uploaded_files = firstRun.result.uploaded_files
C8_Witness ==
    /\ firstRun.done /\ Returned /\ firstRun.failures = {} /\ failures = {}
    /\ modesUsed = {"sftp"}
    /\ Len(result.uploaded_files) >= 3

\* C9 as stated: after a successful deployment the i-th manifest entry is the
\* path, relative to the target root, of the i-th item completed, and the
\* reported count is the number of entries.
C9_EntriesAreRelativePaths ==
    Returned /\ result.success
        => /\ Len(result.uploaded_files) = Len(completed)
           /\ \A i \in 1..Len(completed) :
                 result.uploaded_files[i].path = completed[i].path
           /\ result.message.n = Len(result.uploaded_files)

\* C9 amended: after a successful deployment the manifest has one entry per
\* item of the local tree, the i-th entry being the base name of the i-th
\* item completed (marked as folder for a directory), and the reported count
\* is the number of entries.
C9_EntriesAreBaseNames ==
    Returned /\ result.success
        => /\ Len(result.uploaded_files) = Len(completed)
           /\ Len(completed) = ItemCount(export_dir.items)
           /\ \A i \in 1..Len(completed) :
                 /\ result.uploaded_files[i].path
                        = <<completed[i].path[Len(completed[i].path)]>>
                 /\ result.uploaded_files[i].folder = completed[i].isdir
           /\ result.message.n = Len(result.uploaded_files)
C9_Witness ==
    /\ Returned /\ result.success
    /\ Len(result.uploaded_files) = 3
    /\ result.uploaded_files[1] = result.uploaded_files[3]
    /\ completed[1].path # completed[3].path

\* C10 as stated: a deployment that fails returns success=False with the
\* manifest accumulated up to the failure.
C10_PartialManifestReturned ==
    Returned /\ result.message.kind = "error"
        => ~result.success /\ result.uploaded_files = uploaded

\* C10 amended: a deployment that fails returns success=False with an error
\* message and an empty manifest; the files transferred before the failure
\* stay on the device.
C10_EmptyManifestOnFailure ==
    Returned /\ result.message.kind = "error"
        => /\ ~result.success
           /\ result.uploaded_files = <<>>
           /\ \A i \in 1..Len(completed) :
                 ~completed[i].isdir
                    => [path |-> completed[i].path, kind |-> "file",
                        gen |-> deployNo] \in target.entries
C10_Witness ==
    pc = "close" /\ result.message.kind = "error" /\ Len(uploaded) >= 2

\* The ways to read s as user:password@host, and as user:password@host:port
\* with a decimal port: user holds no ':' or '@', password no '@', host no ':'.
SplitsWithoutPort(s) ==
    { <<SubSeq(s, 1, q[1] - 1), SubSeq(s, q[1] + 1, q[2] - 1), SubSeq(s, q[2] + 1, Len(s))>> :
        q \in { q \in (1..Len(s)) \X (1..Len(s)) :
            /\ q[1] > 1 /\ q[2] > q[1] + 1 /\ q[2] < Len(s)
            /\ s[q[1]] = ":" /\ s[q[2]] = "@"
            /\ \A n \in 1..(q[1] - 1) : s[n] \notin {":", "@"}
            /\ \A n \in (q[1] + 1)..(q[2] - 1) : s[n] # "@"
            /\ \A n \in (q[2] + 1)..Len(s) : s[n] # ":" } }
SplitsWithPort(s) ==
    { <<SubSeq(s, 1, q[1] - 1), SubSeq(s, q[1] + 1, q[2] - 1),
        SubSeq(s, q[2] + 1, q[3] - 1), SubSeq(s, q[3] + 1, Len(s))>> :
        q \in { q \in (1..Len(s)) \X (1..Len(s)) \X (1..Len(s)) :
            /\ q[1] > 1 /\ q[2] > q[1] + 1 /\ q[3] > q[2] + 1 /\ q[3] < Len(s)
            /\ s[q[1]] = ":" /\ s[q[2]] = "@" /\ s[q[3]] = ":"
            /\ \A n \in 1..(q[1] - 1) : s[n] \notin {":", "@"}
            /\ \A n \in (q[1] + 1)..(q[2] - 1) : s[n] # "@"
            /\ \A n \in (q[2] + 1)..(q[3] - 1) : s[n] # ":"
            /\ \A n \in (q[3] + 1)..Len(s) : s[n] \in Digits } }

\* C18: parse_connection_string maps every string user:password@host to
\* (user, password, host, 22), every string user:password@host:port with a
\* decimal port to (user, password, host, port), and rejects every other
\* string.
C18_ParsesExactlyTheForm ==
    conn.called =>
        /\ \A t \in SplitsWithoutPort(conn_str) :
              conn.rec = Conn(t[1], t[2], t[3], DEFAULT_SSH_PORT)
        /\ \A t \in SplitsWithPort(conn_str) :
              conn.rec = Conn(t[1], t[2], t[3], DecimalValue(t[4]))
        /\ (SplitsWithoutPort(conn_str) = {} /\ SplitsWithPort(conn_str) = {})
              => ~conn.rec.ok

\* export_video has ended, by return or by exception.
ExportEnded == x_pc \in {"x_returned", "x_raised"}

\* C12: an export request whose duration end - start is <= 0 fails without
\* the transcoder being invoked, so the frame limit of every invocation is a
\* non-negative integer.
C12_NoInvocationWithoutDuration ==
    /\ x_call.invoked => x_call.frames_arg >= 0 /\ x_call.end - x_args.start > 0
    /\ (ExportEnded /\ x_call.timed /\ x_call.end - x_args.start <= 0)
          => x_out.state = "returned" /\ ~x_out.value /\ ~x_call.invoked

\* C13: when no end time is supplied and neither the probe nor the fallback
\* yields a duration, export_video returns failure and the config file and
\* the frame files are the same as before the call.
C13_NoDurationNoSideEffects ==
    (ExportEnded /\ x_args.video_exists /\ ~x_args.end_given /\ ~x_call.timed)
        => /\ x_out.state = "returned" /\ ~x_out.value
           /\ x_fs.config = x_ghost.before.config
           /\ FramesOf(x_fs.files) = FramesOf(x_ghost.before.files)

\* C14: when the transcoder exits nonzero, export_video returns failure, the
\* config file has the content it had before the call, and the error logged
\* is the diagnostic output cut to at most 500 characters.
C14_TranscodeFailureKeepsConfig ==
    (ExportEnded /\ x_out.kind = "ffmpeg_error")
        => /\ x_out.state = "returned" /\ ~x_out.value
           /\ x_fs.config = x_ghost.before.config
           /\ x_out.logged <= ErrLimit
           /\ x_out.logged = (IF x_ghost.stderr < ErrLimit THEN x_ghost.stderr ELSE ErrLimit)

\* C15: when the transcoder is invoked the output directory holds no frame
\* file of an earlier run, so after a successful export the frame files
\* present are exactly those the current run produced, also when it produced
\* fewer than the run before.
C15_NoStaleFrames ==
    /\ x_call.invoked => x_call.stale = {}
    /\ (ExportEnded /\ x_out.kind = "ok")
          => /\ \A f \in FramesOf(x_fs.files) : f.run = x_ghost.exportNo
             /\ FramesOf(x_fs.files) = x_ghost.lastGood
C15_Witness ==
    /\ ExportEnded /\ x_out.kind = "ok"
    /\ x_ghost.exportNo > 1
    /\ FramesOf(x_ghost.before.files) # {}
    /\ \A f \in FramesOf(x_ghost.before.files) : f.run < x_ghost.exportNo
    /\ Cardinality(FramesOf(x_fs.files)) < Cardinality(FramesOf(x_ghost.before.files))
    /\ FramesOf(x_fs.files) # {}

\* C16: after an export that aborts with a probe failure or a transcode
\* failure the frame directory holds the complete frame set of a prior
\* successful run or no frame file at all, never a partial set.
C16_NoPartialFrames ==
    (ExportEnded /\ x_out.kind \in {"duration_unknown", "ffmpeg_error"})
        => \/ FramesOf(x_fs.files) = {}
           \/ x_ghost.lastGood # {} /\ FramesOf(x_fs.files) = x_ghost.lastGood

\* C17: whenever the transcoder executable cannot be found, export_video
\* returns False with the tool-unavailable outcome and does not raise, in
\* the duration fallback as in the frame extraction.
C17_ToolUnavailableReturned ==
    (ExportEnded /\ x_call.attempted /\ ~x_args.tool_found)
        => x_out = Returns(FALSE, "tool_unavailable", 0)

\* The program was run with a malformed --upload string.
MalformedUpload ==
    x_pc # "x_idle" /\ x_args.upload # <<>> /\ ~parse_connection_string(x_args.upload).ok

\* C11: a malformed upload connection string is rejected before any network
\* connection is attempted and before the transcoder is invoked, so no frame
\* file, config file or remote state has changed when the error is reported.
C11_MalformedRejectedFirst ==
    MalformedUpload =>
        /\ ~x_call.attempted /\ ~x_call.invoked
        /\ x_fs = x_ghost.before
        /\ ssh = None /\ session = "none"
        /\ pending = {} /\ backups = [ts \in Timestamps |-> NoBackup]
        /\ (x_pc = "m_done" => x_out.code = 1)

\* C19: during upload_directory remote operations never overlap: a remote
\* mkdir or transfer is started only when no earlier remote command is still
\* in flight, so a subdirectory exists before anything is put into it.
C19_NoOverlap ==
    [][ ( /\ pc = "mirror" /\ idx <= Len(steps)
          /\ steps[idx].op \in {"mkdir", "put"}
          /\ (idx' # idx \/ pc' = "close") )
        => pending = {} ]_vars

\* C20: if a remote directory-create or file-put of the mirror fails (and
\* nothing else of the deployment did), the deployment is reported as failed.
C20_FailedOperationReported ==
    (Returned /\ failures # {} /\ failures \subseteq {"mkdir", "put"})
        => ~result.success

\* The files among the local items the traversal has completed, and the
\* regular files of the local tree.
FilesCompleted == { i \in 1..Len(completed) : ~completed[i].isdir }
FilesOfTree == { i \in 1..Len(steps) : steps[i].op = "put" }

\* C21: one progress unit is reported per transferred file and none per
\* directory, each only after the transfer completed; after a successful
\* deployment the units reported equal the number of regular files of the
\* local tree, which is the total announced before the mirror started.
C21_OneUnitPerFile ==
    /\ pbar.n = Cardinality(FilesCompleted)
    /\ pc = "mirror" => pbar.made /\ pbar.total = Cardinality(FilesOfTree)
    /\ (Returned /\ result.success)
          => pbar.n = pbar.total /\ pbar.total = Cardinality(FilesOfTree)
C21_Witness ==
    /\ Returned /\ result.success
    /\ pbar.n = 2
    /\ \E i \in 1..Len(completed) : completed[i].isdir

\* C22: if the handshake or the authentication of connect fails, the
\* uploader holds no network handle afterwards, neither SSH client nor SFTP
\* handle, and nothing is attempted on the device.
C22_FailedConnectDisconnected ==
    [][ (pc = "connect" /\ pc' = "returned")
        => /\ ssh' = None /\ sftp' = None
           /\ retval' = FALSE
           /\ UNCHANGED <<remoteVars, failures, steps>> ]_vars

\* C23: if the local export directory does not exist,
\* upload_export_to_printer returns success=False with an empty manifest and
\* issues no remote command: the target is neither renamed nor re-created
\* and the remote state is unchanged.
C23_MissingExportNoRemoteCommand ==
    /\ [][ (pc = "upload" /\ ~export_dir.exists /\ pc' \notin {"upload", "raised"})
           => /\ pc' = "close"
              /\ ~result'.success /\ result'.uploaded_files = <<>>
              /\ result'.message.kind = "missing"
              /\ UNCHANGED <<remoteVars, failures, modesUsed>> ]_vars
    /\ []( (Returned /\ result.message.kind = "missing")
           => /\ ~export_dir.exists
              /\ failures = {} /\ modesUsed = {} /\ steps = <<>> /\ pending = {}
              /\ backups = backupsAtStart )
C23_Witness ==
    /\ pc = "returned" /\ result = MissingResult /\ ~retval
    /\ session = "closed"
    /\ target = OldContent
====
